---- MODULE Spec2Model ----
(***************************************************************************)
(* Model of the localization node of drone/particle_filter                 *)
(* (particle_filter.cpp): the scan, initialization and timer callbacks of  *)
(* class Particles, the gate isAboveMotionThreshold and the publication    *)
(* step publishPoseEstimate.                                               *)
(*                                                                         *)
(* Geometry is exact on a lattice: lengths are multiples of one grid unit, *)
(* angles are multiples of a quarter turn, so every rotation is a signed   *)
(* permutation matrix and tf2's transform algebra (composition, inverse,   *)
(* inverseTimes, getRPY) is integer arithmetic.  Time is in whole ticks.   *)
(***************************************************************************)
EXTENDS Integers, Sequences, FiniteSets, TLC

(***************************************************************************)
(* Bounds of the model                                                     *)
(***************************************************************************)
\* scan and clock time stamps range over 0..MaxTime
MaxTime == 1
\* odometry positions along x range over 0..MaxPos grid units
MaxPos == 2
\* number of particles (the parameter /particles, 500 by default)
NumParticles == 2

(***************************************************************************)
(* Program parameters, in lattice units                                    *)
(***************************************************************************)
\* /observation_threshold_trans (0.3 m): two grid units of 0.15 m
ObservationThresholdTranslation == 2
\* /observation_threshold_rot (0.4 rad): lies strictly between no rotation
\* and one quarter turn, so on the lattice |yaw| >= 0.4 rad iff |yaw| >= 1
ObservationThresholdRotation == 1
\* /transform_tolerance_time (1.0 s): one tick
TransformTolerance == 1

Times == 0..MaxTime

(***************************************************************************)
(* tf2 algebra on the lattice                                              *)
(***************************************************************************)
Abs(x) == IF x < 0 THEN -x ELSE x
Sgn(x) == IF x < 0 THEN -1 ELSE 1

Vec(x, y, z) == <<x, y, z>>

\* tf2::Matrix3x3 on the lattice: a rotation is a signed permutation matrix,
\* kept as the images of the three axes, each a signed axis: <<2, -1, 3>>
\* takes x to y, y to -x and z to z
Identity3 == <<1, 2, 3>>

\* rotations by q quarter turns about x, y and z
RotX(q) == CASE q % 4 = 0 -> <<1, 2, 3>> [] q % 4 = 1 -> <<1, 3, -2>>
             [] q % 4 = 2 -> <<1, -2, -3>> [] OTHER -> <<1, -3, 2>>
RotY(q) == CASE q % 4 = 0 -> <<1, 2, 3>> [] q % 4 = 1 -> <<-3, 2, 1>>
             [] q % 4 = 2 -> <<-1, 2, -3>> [] OTHER -> <<3, 2, -1>>
RotZ(q) == CASE q % 4 = 0 -> <<1, 2, 3>> [] q % 4 = 1 -> <<2, -1, 3>>
             [] q % 4 = 2 -> <<-1, -2, 3>> [] OTHER -> <<-2, 1, 3>>

\* the matrix entry at (row, col)
Entry(A, row, col) == IF Abs(A[col]) = row THEN Sgn(A[col]) ELSE 0

\* the image of a signed axis
Image(A, s) == Sgn(s) * A[Abs(s)]

MatMul(A, B) == <<Image(A, B[1]), Image(A, B[2]), Image(A, B[3])>>

Transpose(A) ==
  [k \in 1..3 |-> LET i == CHOOSE j \in 1..3 : Abs(A[j]) = k IN Sgn(A[i]) * i]

MatVec(A, v) ==
  [k \in 1..3 |-> Entry(A, k, 1) * v[1] + Entry(A, k, 2) * v[2] + Entry(A, k, 3) * v[3]]

VecAdd(u, v) == <<u[1] + v[1], u[2] + v[2], u[3] + v[3]>>
VecNeg(u) == <<-u[1], -u[2], -u[3]>>
Length2(v) == v[1] * v[1] + v[2] * v[2] + v[3] * v[3]

\* tf2::Transform: a basis and an origin
Transform(basis, origin) == [basis |-> basis, origin |-> origin]
IdentityTransform == Transform(Identity3, Vec(0, 0, 0))

\* tf2::Transform::operator*
TransformTimes(a, b) ==
  Transform(MatMul(a.basis, b.basis), VecAdd(MatVec(a.basis, b.origin), a.origin))

\* tf2::Transform::inverse
TransformInverse(a) ==
  Transform(Transpose(a.basis), MatVec(Transpose(a.basis), VecNeg(a.origin)))

\* tf2::Transform::inverseTimes: this^-1 * t
InverseTimes(a, t) ==
  Transform(MatMul(Transpose(a.basis), t.basis),
            MatVec(Transpose(a.basis), VecAdd(t.origin, VecNeg(a.origin))))

\* atan2 on the lattice, in quarter turns (atan2(0, 0) = 0)
Atan2(y, x) ==
  CASE y = 0 /\ x > 0 -> 0
    [] y > 0 /\ x = 0 -> 1
    [] y = 0 /\ x < 0 -> 2
    [] y < 0 /\ x = 0 -> -1
    [] OTHER -> 0

\* tf2::Matrix3x3::getRPY (getEulerYPR, first solution), in quarter turns
GetRPY(m) ==
  IF Abs(Entry(m, 3, 1)) >= 1
  THEN [roll |-> Atan2(Entry(m, 3, 2), Entry(m, 3, 3)),
        pitch |-> IF Entry(m, 3, 1) < 0 THEN 1 ELSE -1,
        yaw |-> 0]
  ELSE [roll |-> Atan2(Entry(m, 3, 2), Entry(m, 3, 3)),
        pitch |-> 0,
        yaw |-> Atan2(Entry(m, 2, 1), Entry(m, 1, 1))]

\* tf::createQuaternionFromRPY followed by the conversion to a rotation:
\* R = Rz(yaw) * Ry(pitch) * Rx(roll)
FromRPY(roll, pitch, yaw) == MatMul(RotZ(yaw), MatMul(RotY(pitch), RotX(roll)))

(***************************************************************************)
(* Values                                                                  *)
(***************************************************************************)
\* DroneState: x, y, z, roll, pitch, yaw
DroneState(x, y, z, roll, pitch, yaw) ==
  [x |-> x, y |-> y, z |-> z, roll |-> roll, pitch |-> pitch, yaw |-> yaw]

\* the states a particle may take: the origin, and one step ahead turned a
\* quarter turn about z
Origin == DroneState(0, 0, 0, 0, 0, 0)
ParticleStates == {Origin, DroneState(1, 0, 0, 0, 0, 1)}

\* the pose a DroneState denotes (position, and orientation from its angles)
StateTransform(s) == Transform(FromRPY(s.roll, s.pitch, s.yaw), Vec(s.x, s.y, s.z))

\* odometry poses of the vehicle: anywhere on the x axis unrotated, or at the
\* origin turned a quarter turn about z (yaw) or about x (roll)
OdomPoses ==
  {Transform(Identity3, Vec(x, 0, 0)) : x \in 0..MaxPos}
    \cup {Transform(RotZ(1), Vec(0, 0, 0)), Transform(RotX(1), Vec(0, 0, 0))}

\* where the transform buffer places base_footprint in the world frame when
\* publishPoseEstimate asks
WorldToBasePoses == {Transform(Identity3, Vec(1, 0, 0))}

\* The worlds a run may take place in.  In "roaming" the vehicle is seen at
\* every odometry pose and the particle cloud has collapsed onto one state; in
\* "spread" the vehicle is seen at the two ends of the x axis only and the
\* cloud spreads over all the particle states.
Worlds == {"roaming", "spread"}

PosesOf(w) ==
  IF w = "roaming"
  THEN OdomPoses
  ELSE {Transform(Identity3, Vec(0, 0, 0)), Transform(Identity3, Vec(MaxPos, 0, 0))}

StatesOf(w) == IF w = "roaming" THEN {Origin} ELSE ParticleStates

\* the stamps of the messages and the times of the calls: every time in
\* "roaming", a single instant in "spread"
TimesOf(w) == IF w = "roaming" THEN Times ELSE {0}

\* geometry_msgs::PoseStamped
PoseStamped(t, p) == [stamp |-> t, pose |-> p]

\* a default-constructed geometry_msgs::Pose: all fields zero, no rotation
ZeroPose == Transform(<<0, 0, 0>>, Vec(0, 0, 0))

\* libPF::ResamplingMode
ResamplingModes == {"RESAMPLE_NEVER", "RESAMPLE_ALWAYS", "RESAMPLE_NEFF"}

(***************************************************************************)
(* State of class Particles                                                *)
(***************************************************************************)
VARIABLES
  world,               \* the world of the run, which offers its poses and states
  initialized,         \* _initialized
  receivedSensorData,  \* _receivedSensorData
  firstRun,            \* _firstRun
  publishUpdated,      \* _publishUpdated
  lastLaserTime,       \* _lastLaserTime
  lastLocalizedPose,   \* _lastLocalizedPose
  lastOdomPose,        \* _mm: the movement model's last odometry pose
  particles,           \* _pf: the particle states and the best particle
  resamplingMode,      \* _pf: the resampling mode
  latestTransform,     \* _latestTransform
  estimatePublished,   \* whether /amcl/pose has carried a message yet
  cb,                  \* the callback that ran last: its input, calls and output
  fill,                \* publishPoseEstimate: the loop that fills _poseArray
  laser,               \* prepareLaserPointCloud: its scan and what it returned
  finder               \* class CoverageFinder: its fields and its constructor's position

\* the state of the node between two callbacks
nodeVars ==
  <<world, initialized, receivedSensorData, firstRun, publishUpdated, lastLaserTime,
    lastLocalizedPose, lastOdomPose, particles, resamplingMode,
    latestTransform, estimatePublished, cb>>

vars == <<nodeVars, fill, laser, finder>>

\* no loop is being followed, no scan is being prepared, no coverage finder
\* is being constructed
NoFill == [pc |-> <<>>]
NoScan == [done |-> FALSE, ranges |-> <<>>]
NoFinder == [pc |-> "-"]

\* the localization state a dropped scan must not touch
localizationState ==
  <<particles, resamplingMode, lastOdomPose, lastLocalizedPose,
    lastLaserTime, firstRun, latestTransform>>

(***************************************************************************)
(* The particle filter _pf (libPF::ParticleFilter<DroneState>), after the  *)
(* Particle Set of the design: an ordered list of NumParticles states and  *)
(* the best particle, the one of maximum weight: its state, and whether it *)
(* is the first particle of the list.  The weights themselves are not      *)
(* kept: a reweighting may make any particle the best, and uniform weights *)
(* make the first one the best.                                            *)
(***************************************************************************)
ParticleSet(states, best, bestIsFirst) ==
  [states |-> states, best |-> best, bestIsFirst |-> bestIsFirst]

\* the places in the list the best particle may have
BestIndices(parts) == IF parts.bestIsFirst THEN {1} ELSE 2..NumParticles

\* the motion model perturbs every particle by noise of full support; the
\* best particle stays the same particle
Predict(parts) ==
  {ParticleSet(s, s[b], parts.bestIsFirst) :
     s \in [1..NumParticles -> StatesOf(world)], b \in BestIndices(parts)}

\* the particles the observation model can favour: any of them in "spread";
\* in "roaming" they all hold one state and the first stays the best
FavouredIn(w) == IF w = "roaming" THEN {1} ELSE 1..NumParticles

\* each weight is multiplied by a likelihood and the weights are renormalized
Reweight(parts) ==
  {ParticleSet(parts.states, parts.states[b], b = 1) : b \in FavouredIn(world)}

\* survivors are drawn among the particles; weights are uniform afterwards
Resample(parts) ==
  {ParticleSet(s, s[1], TRUE) :
     s \in [1..NumParticles -> {parts.states[j] : j \in 1..NumParticles}]}

\* RESAMPLE_NEFF resamples when the effective sample size is below half the
\* number of particles, which the weights decide
ResampleIfNeeded(parts, mode) ==
  CASE mode = "RESAMPLE_ALWAYS" -> Resample(parts)
    [] mode = "RESAMPLE_NEFF" -> Resample(parts) \cup {parts}
    [] OTHER -> {parts}

\* ParticleFilter::filter(dt): the particle sets one filter step may leave
Filter(parts, mode) ==
  UNION {UNION {ResampleIfNeeded(r, mode) : r \in Reweight(q)} : q \in Predict(parts)}

\* ParticleFilter::drift(dt): the motion model alone
Drift(parts) == Predict(parts)

\* ParticleFilter::drawAllFromDistribution: every state a sample, weights uniform
DrawAllFromDistribution(samples) ==
  {ParticleSet(s, s[1], TRUE) : s \in [1..NumParticles -> samples]}

\* ParticleFilter::getState(i), i counted from 0
GetState(parts, i) == parts.states[i + 1]

\* ParticleFilter::getBestState: the state of the particle of maximum weight
GetBestState(parts) == parts.best

\* what a Gaussian distribution can draw: its support is the whole space
GaussianSamples == StatesOf(world)

\* what the uniform distribution over the free cells of the map can draw
UniformSamples == StatesOf(world)

(***************************************************************************)
(* publishPoseEstimate                                                     *)
(***************************************************************************)
\* _tfBuffer.transform(pose, worldToMap, _worldFrameID): it throws, or
\* composes the pose of base_footprint in the world frame, one of poses, with
\* pose
ChainOutcomes(poses) ==
  {[ok |-> FALSE, worldToBase |-> IdentityTransform]}
    \cup {[ok |-> TRUE, worldToBase |-> p] : p \in poses}

\* the outcomes to consider for a callback: none matters when it publishes nothing
ChainFor(publishes) ==
  IF publishes
  THEN ChainOutcomes(WorldToBasePoses)
  ELSE {[ok |-> FALSE, worldToBase |-> IdentityTransform]}

\* the stamped transform handed to the broadcaster
TransformStamped(t, tr) == [stamp |-> t, transform |-> tr]

\* publishPoseEstimate with the assignment to _latestTransform moved before the
\* try block: a chain that does not resolve leaves the correction reset
PublishPoseEstimateAssignFirst(t, parts, latest, chain) ==
  [poseArray |-> <<[stamp |-> t, size |-> NumParticles]>>,
   pose |-> <<PoseStamped(t, StateTransform(GetState(parts, 0)))>>,
   tf |-> IF chain.ok
          THEN <<TransformStamped(t + TransformTolerance,
                   TransformInverse(TransformTimes(chain.worldToBase,
                     TransformInverse(StateTransform(GetBestState(parts))))))>>
          ELSE <<>>,
   latest |-> IF chain.ok
              THEN TransformTimes(chain.worldToBase,
                     TransformInverse(StateTransform(GetBestState(parts))))
              ELSE IdentityTransform,
   calls |-> <<[t |-> t, ok |-> chain.ok]>>]

\* publishPoseEstimate(t): the messages it sends and the correction it leaves
PublishPoseEstimate(t, parts, latest, chain) ==
  LET poseArray == [stamp |-> t, size |-> NumParticles]
      bestPose == PoseStamped(t, StateTransform(GetState(parts, 0)))
      worldToMap ==
        TransformTimes(chain.worldToBase, TransformInverse(StateTransform(GetBestState(parts))))
  IN  IF ~chain.ok
      THEN [poseArray |-> <<poseArray>>, pose |-> <<bestPose>>, tf |-> <<>>,
            latest |-> latest, calls |-> <<[t |-> t, ok |-> FALSE]>>]
      ELSE [poseArray |-> <<poseArray>>, pose |-> <<bestPose>>,
            tf |-> <<TransformStamped(t + TransformTolerance, TransformInverse(worldToMap))>>,
            latest |-> worldToMap, calls |-> <<[t |-> t, ok |-> TRUE]>>]

\* a callback that did not call publishPoseEstimate
NoPublish(latest) ==
  [poseArray |-> <<>>, pose |-> <<>>, tf |-> <<>>, latest |-> latest, calls |-> <<>>]

(***************************************************************************)
(* What a callback did: its input, the calls it made, the messages it sent *)
(***************************************************************************)
Callback(kind, stamp) ==
  [kind |-> kind,          \* which callback ran
   stamp |-> stamp,        \* the stamp of its message, or the time it ran at
   branch |-> "-",         \* scanCallback: the path taken
   odomLookup |-> "-",     \* lookupOdomPose: "-" (not called), "ok" or "failed"
   odomPose |-> PoseStamped(0, ZeroPose),  \* the pose lookupOdomPose gave
   sensorToBase |-> "-",   \* lookupTargetToBaseTransform: "-", "ok" or "failed"
   prepared |-> FALSE,     \* prepareLaserPointCloud was called
   cloud |-> FALSE,        \* the filtered cloud was published
   filterDt |-> <<>>,      \* the dt of each _pf->filter(dt) call
   driftDt |-> <<>>,       \* the dt of each _pf->drift(dt) call
   draw |-> "-",           \* drawAllFromDistribution: "-", "drawn" or "failed"
   resetTimer |-> FALSE,   \* _pf->resetTimer() was called
   calls |-> <<>>,         \* the publishPoseEstimate calls: time, chain resolved
   poseArray |-> <<>>,     \* messages on /amcl/particlecloud
   pose |-> <<>>,          \* messages on /amcl/pose
   tf |-> <<>>,            \* transforms handed to the broadcaster
   returned |-> "void"]    \* the value returned

WithPublished(c, pub) ==
  [c EXCEPT !.calls = pub.calls, !.poseArray = pub.poseArray, !.pose = pub.pose, !.tf = pub.tf]

\* two publication records in sequence
Then(a, b) ==
  [poseArray |-> a.poseArray \o b.poseArray, pose |-> a.pose \o b.pose,
   tf |-> a.tf \o b.tf, latest |-> b.latest, calls |-> a.calls \o b.calls]

(***************************************************************************)
(* Initial state: after the constructor Particles::Particles               *)
(***************************************************************************)
Constructed ==
  /\ world \in Worlds
  /\ initialized = FALSE
  /\ receivedSensorData = FALSE
  /\ firstRun = TRUE
  \* _publishUpdated is set nowhere in the constructor: its value is whatever
  \* the object's storage held
  /\ publishUpdated \in BOOLEAN
  /\ lastLaserTime = 0
  /\ lastLocalizedPose = ZeroPose
  /\ lastOdomPose = PoseStamped(0, ZeroPose)
  /\ particles = ParticleSet([i \in 1..NumParticles |-> Origin], Origin, TRUE)
  \* the mode the library starts in is not set by the constructor
  /\ resamplingMode \in ResamplingModes
  /\ latestTransform = IdentityTransform
  /\ estimatePublished = FALSE
  /\ cb = Callback("constructor", 0)

Init == Constructed /\ fill = NoFill /\ laser = NoScan /\ finder = NoFinder

(***************************************************************************)
(* isAboveMotionThreshold                                                  *)
(***************************************************************************)
\* the threshold taken against the pose of the previous scan
IsAboveMotionThresholdSinceLastScan(odom_pose) ==
  LET odomTransform == InverseTimes(lastOdomPose.pose, odom_pose.pose)
      rpy == GetRPY(odomTransform.basis)
  IN  \/ Length2(odomTransform.origin)
           >= ObservationThresholdTranslation * ObservationThresholdTranslation
      \/ Abs(rpy.yaw) >= ObservationThresholdRotation

IsAboveMotionThreshold(odom_pose) ==
  LET odomTransform == InverseTimes(lastLocalizedPose, odom_pose.pose)
      rpy == GetRPY(odomTransform.basis)
  IN  \/ Length2(odomTransform.origin)
           >= ObservationThresholdTranslation * ObservationThresholdTranslation
      \/ Abs(rpy.yaw) >= ObservationThresholdRotation

(***************************************************************************)
(* scanCallback                                                            *)
(***************************************************************************)
\* scanCallback without its first check
NotInitializedUnchecked == FALSE

\* if (!_initialized)
NotInitialized == ~initialized

\* the stale check with the flag inverted
OlderThanPreviousBeforeData(stamp) == ~receivedSensorData /\ stamp - lastLaserTime < 0

\* if (_receivedSensorData && timediff < 0)
OlderThanPrevious(stamp) == receivedSensorData /\ stamp - lastLaserTime < 0

\* the gate with the negation of the flag dropped
GateOpenOnData(odomPose) == receivedSensorData \/ IsAboveMotionThreshold(odomPose)

\* if (!_receivedSensorData || isAboveMotionThreshold(odomPose))
GateOpen(odomPose) == ~receivedSensorData \/ IsAboveMotionThreshold(odomPose)

\* the publication at the end of the callback made unconditional
PublishAtEndAlways == TRUE

\* if (!_publishUpdated), at the end of the callback
PublishAtEnd == ~publishUpdated

\* setLastOdomPose called in the filter branch only
SetLastOdomPoseWhenFiltered(odomPose) ==
  lastOdomPose' = IF cb'.branch = "drift" THEN lastOdomPose ELSE odomPose

\* _mm->setLastOdomPose(odomPose)
SetLastOdomPose(odomPose) == lastOdomPose' = odomPose

\* an early return: nothing is written
ScanReturn(stamp, branch, odomLookup, odomPose, sensorToBase) ==
  /\ cb' = [Callback("scanCallback", stamp) EXCEPT
              !.branch = branch, !.odomLookup = odomLookup, !.odomPose = odomPose,
              !.sensorToBase = sensorToBase, !.prepared = (sensorToBase # "-")]
  /\ UNCHANGED <<world, initialized, receivedSensorData, firstRun, publishUpdated, lastLaserTime,
                 lastLocalizedPose, lastOdomPose, particles, resamplingMode,
                 latestTransform, estimatePublished>>

\* the return on a failed lookup placed after the bookkeeping
SensorToBaseUnavailableLate(stamp, odomPose) ==
  /\ cb' = [Callback("scanCallback", stamp) EXCEPT
              !.branch = "noTransform", !.odomLookup = "ok", !.odomPose = odomPose,
              !.sensorToBase = "failed", !.prepared = TRUE]
  /\ lastOdomPose' = odomPose
  /\ lastLaserTime' = stamp
  /\ UNCHANGED <<world, initialized, receivedSensorData, firstRun, publishUpdated,
                 lastLocalizedPose, particles, resamplingMode,
                 latestTransform, estimatePublished>>

\* lookupTargetToBaseTransform failed: return
SensorToBaseUnavailable(stamp, odomPose) ==
  ScanReturn(stamp, "noTransform", "ok", odomPose, "failed")

\* the callback runs to its end on branch "first" (the else of if (!_firstRun)),
\* "full" (the gate is open) or "drift"; after is the particle list it leaves
ScanProceed(stamp, odomPose, branch, dt, after, chain) ==
  LET full == branch = "full"
      mid == IF full /\ publishUpdated
             THEN PublishPoseEstimate(stamp, after, latestTransform, chain)
             ELSE NoPublish(latestTransform)
      end == IF PublishAtEnd
             THEN PublishPoseEstimate(stamp, after, mid.latest, chain)
             ELSE NoPublish(mid.latest)
  IN  \E pub \in {Then(mid, end)} :
      /\ particles' = after
      /\ lastLocalizedPose' = IF branch = "drift" THEN lastLocalizedPose ELSE odomPose.pose
      /\ receivedSensorData' = IF full THEN TRUE ELSE receivedSensorData
      /\ firstRun' = FALSE
      /\ lastLaserTime' = stamp
      /\ latestTransform' = pub.latest
      /\ estimatePublished' = (estimatePublished \/ pub.pose # <<>>)
      /\ cb' = WithPublished(
                 [Callback("scanCallback", stamp) EXCEPT
                    !.branch = branch, !.odomLookup = "ok", !.odomPose = odomPose,
                    !.sensorToBase = IF full THEN "ok" ELSE "-",
                    !.prepared = full, !.cloud = full,
                    !.filterDt = IF full THEN <<dt>> ELSE <<>>,
                    !.driftDt = IF branch = "drift" THEN <<dt>> ELSE <<>>],
                 pub)
      /\ SetLastOdomPose(odomPose)
      /\ UNCHANGED <<world, initialized, publishUpdated, resamplingMode>>

ScanCallback ==
  /\ UNCHANGED <<fill, laser, finder>>
  /\ \E stamp \in TimesOf(world) :
       IF NotInitialized
       THEN ScanReturn(stamp, "notInitialized", "-", PoseStamped(0, ZeroPose), "-")
       ELSE IF OlderThanPrevious(stamp)
       THEN ScanReturn(stamp, "stale", "-", PoseStamped(0, ZeroPose), "-")
       ELSE \E odomOk \in BOOLEAN :
         IF ~odomOk
         THEN ScanReturn(stamp, "noOdom", "failed", PoseStamped(0, ZeroPose), "-")
         ELSE \E pose \in PosesOf(world) :
           LET odomPose == PoseStamped(stamp, pose)
               dt == odomPose.stamp - lastOdomPose.stamp
           IN  IF ~firstRun
               THEN IF GateOpen(odomPose)
                    THEN \E sensorToBaseOk \in BOOLEAN :
                           IF ~sensorToBaseOk
                           THEN SensorToBaseUnavailable(stamp, odomPose)
                           ELSE \E after \in Filter(particles, resamplingMode),
                                   chain \in ChainFor(publishUpdated \/ PublishAtEnd) :
                                  ScanProceed(stamp, odomPose, "full", dt, after, chain)
                    ELSE \E after \in Drift(particles), chain \in ChainFor(PublishAtEnd) :
                           ScanProceed(stamp, odomPose, "drift", dt, after, chain)
               ELSE \E chain \in ChainFor(PublishAtEnd) :
                      ScanProceed(stamp, odomPose, "first", 0, particles, chain)

(***************************************************************************)
(* latestTransformTimerCallback                                            *)
(***************************************************************************)
\* the timer stamping its transform with the time of the tick alone
LatestTransformTimerCallbackUnshifted ==
  /\ UNCHANGED <<fill, laser, finder>>
  /\ \E now \in TimesOf(world) :
       /\ cb' = [Callback("latestTransformTimerCallback", now) EXCEPT
                   !.tf = <<TransformStamped(now, TransformInverse(latestTransform))>>]
       /\ UNCHANGED <<world, initialized, receivedSensorData, firstRun, publishUpdated, lastLaserTime,
                      lastLocalizedPose, lastOdomPose, particles, resamplingMode,
                      latestTransform, estimatePublished>>

LatestTransformTimerCallback ==
  /\ UNCHANGED <<fill, laser, finder>>
  /\ \E now \in TimesOf(world) :
       /\ cb' = [Callback("latestTransformTimerCallback", now) EXCEPT
                   !.tf = <<TransformStamped(now + TransformTolerance,
                                             TransformInverse(latestTransform))>>]
       /\ UNCHANGED <<world, initialized, receivedSensorData, firstRun, publishUpdated, lastLaserTime,
                      lastLocalizedPose, lastOdomPose, particles, resamplingMode,
                      latestTransform, estimatePublished>>

(***************************************************************************)
(* The initialization callbacks                                            *)
(***************************************************************************)
\* the callbacks without their setResamplingMode call
SelectedResamplingModeKept == resamplingMode

\* _pf->setResamplingMode(libPF::RESAMPLE_NEFF)
SelectedResamplingMode == "RESAMPLE_NEFF"

\* _mm->reset(): the model forgets that odometry was received; the pose that
\* setLastOdomPose stored stays until the next call of it
MovementModelReset(last) == last

\* the callbacks without their assignment to _receivedSensorData
ReceivedSensorDataAfterInitKept == receivedSensorData

\* _receivedSensorData = true
ReceivedSensorDataAfterInit == TRUE

\* the callbacks without their assignment to _firstRun
FirstRunAfterInitKept == firstRun

\* _firstRun = true
FirstRunAfterInit == TRUE

\* the body the three callbacks share: draw, select the mode, reset, set the
\* flags, publish
Initialize(kind, t, drawn, drawOk, chain, returned) ==
  \E pub \in {PublishPoseEstimate(t, drawn, latestTransform, chain)} :
      /\ particles' = drawn
      /\ resamplingMode' = SelectedResamplingMode
      /\ lastOdomPose' = MovementModelReset(lastOdomPose)
      /\ initialized' = TRUE
      /\ receivedSensorData' = ReceivedSensorDataAfterInit
      /\ firstRun' = FirstRunAfterInit
      /\ latestTransform' = pub.latest
      /\ estimatePublished' = (estimatePublished \/ pub.pose # <<>>)
      /\ cb' = WithPublished(
                 [Callback(kind, t) EXCEPT
                    !.draw = IF drawOk THEN "drawn" ELSE "failed",
                    !.resetTimer = TRUE, !.returned = returned],
                 pub)
      /\ UNCHANGED <<world, publishUpdated, lastLaserTime, lastLocalizedPose>>

InitialPoseCallback ==
  /\ UNCHANGED <<fill, laser, finder>>
  /\ \E stamp \in TimesOf(world), chain \in ChainFor(TRUE), drawn \in DrawAllFromDistribution(GaussianSamples) :
       Initialize("initialPoseCallback", stamp, drawn, TRUE, chain, "void")

\* the uniform distribution draws among the free cells of the map; with no
\* free cell it has nothing to draw and the particles stay as they were
GlobalLocalizationCallback ==
  /\ UNCHANGED <<fill, laser, finder>>
  /\ \E now \in TimesOf(world), chain \in ChainFor(TRUE), freeSpace \in BOOLEAN :
       \E drawn \in IF freeSpace THEN DrawAllFromDistribution(UniformSamples) ELSE {particles} :
         Initialize("globalLocalizationCallback", now, drawn, freeSpace, chain, "true")

InitialPoseSrvCallback ==
  /\ UNCHANGED <<fill, laser, finder>>
  /\ \E now \in TimesOf(world), chain \in ChainFor(TRUE), drawn \in DrawAllFromDistribution(GaussianSamples) :
       Initialize("initialPoseSrvCallback", now, drawn, TRUE, chain, "true")

(***************************************************************************)
(* The node: callbacks are dispatched one at a time                        *)
(***************************************************************************)
Next ==
  \/ ScanCallback
  \/ LatestTransformTimerCallback
  \/ InitialPoseCallback
  \/ GlobalLocalizationCallback
  \/ InitialPoseSrvCallback

Spec == Init /\ [][Next]_vars

(***************************************************************************)
(* publishPoseEstimate: the loop that fills _poseArray, under              *)
(* #pragma omp parallel for.  The iterations are shared out among worker   *)
(* threads; a thread runs its iterations in order, and the steps of        *)
(* different threads interleave.  temp_pose_orien is declared before the   *)
(* loop, so the threads share it; temp_pose is declared in the body, so    *)
(* each iteration has its own.  A build without OpenMP runs the loop on    *)
(* one thread.                                                             *)
(***************************************************************************)
MaxThreads == 2

Threads == 1..MaxThreads

\* tf::createQuaternionFromRPY of the angles of a state
CreateQuaternionFromRPY(s) == FromRPY(s.roll, s.pitch, s.yaw)

\* geometry_msgs::Pose
Pose(position, orientation) == Transform(orientation, position)

\* the loop about to start over the particle states, its iterations shared
\* out by owner; _poseArray.poses holds default poses
FillStart(states, owner) ==
  [states |-> states, owner |-> owner,
   pc |-> [i \in 1..NumParticles |-> "start"],
   temp_pose_orien |-> <<>>,
   poses |-> [i \in 1..NumParticles |-> ZeroPose],
   published |-> <<>>]

\* the thread of iteration i has finished its earlier iterations
Reached(i) ==
  \A j \in 1..(i - 1) : fill.owner[j] = fill.owner[i] => fill.pc[j] = "done"

\* temp_pose_orien = tf::createQuaternionFromRPY(_pf->getState(i)...)
Convert(i) ==
  /\ fill.pc # <<>> /\ fill.pc[i] = "start" /\ Reached(i)
  /\ fill' = [fill EXCEPT !.pc[i] = "converted",
                          !.temp_pose_orien = CreateQuaternionFromRPY(fill.states[i])]
  /\ UNCHANGED <<nodeVars, laser, finder>>

\* tf::quaternionTFToMsg(temp_pose_orien.normalize(), temp_pose.orientation);
\* _poseArray.poses[i] = temp_pose
Store(i) ==
  /\ fill.pc # <<>> /\ fill.pc[i] = "converted"
  /\ fill' = [fill EXCEPT
                !.pc[i] = "done",
                !.poses[i] = Pose(Vec(fill.states[i].x, fill.states[i].y, fill.states[i].z),
                                  fill.temp_pose_orien)]
  /\ UNCHANGED <<nodeVars, laser, finder>>

\* _poseArrayPublisher.publish(_poseArray), after the loop
PublishPoseArray ==
  /\ fill.pc # <<>> /\ fill.published = <<>>
  /\ \A i \in 1..NumParticles : fill.pc[i] = "done"
  /\ fill' = [fill EXCEPT !.published = <<fill.poses>>]
  /\ UNCHANGED <<nodeVars, laser, finder>>

FillInit ==
  /\ Constructed
  /\ world = "spread" /\ publishUpdated /\ resamplingMode = "RESAMPLE_NEFF"
  /\ laser = NoScan /\ finder = NoFinder
  /\ fill \in {FillStart(states, owner) :
                 states \in [1..NumParticles -> ParticleStates],
                 owner \in [1..NumParticles -> Threads]}

FillNext ==
  \/ \E i \in 1..NumParticles : Convert(i)
  \/ \E i \in 1..NumParticles : Store(i)
  \/ PublishPoseArray

PoseArraySpec == FillInit /\ [][FillNext]_vars

(***************************************************************************)
(* prepareLaserPointCloud.  Ranges are in centimetres; the angle of a beam *)
(* is counted in angle increments from angle_min, so the point of beam     *)
(* beamId, in polar form, is its range at angle beamId.                    *)
(***************************************************************************)
MaxBeams == 3

MaxSampled == 2

\* /max_range and /min_range
FilterMaxRange == 1400

FilterMinRange == 5

\* ranges just inside and just outside the two bounds
BoundaryRanges == {FilterMinRange - 1, FilterMinRange, FilterMaxRange, FilterMaxRange + 1}

\* sensor_msgs::LaserScan: the fields the function reads
LaserScan(ranges, range_min) == [ranges |-> ranges, range_min |-> range_min]

\* the scans considered: every short scan of boundary ranges, and the scan
\* 0.02, 5.0, 15.0, 3.0 of the design's example
LaserScans ==
  {LaserScan(r, m) :
     r \in UNION {[1..n -> BoundaryRanges] : n \in 0..MaxBeams} \cup {<<2, 500, 1500, 300>>},
     m \in {2, FilterMinRange, 300}}

Max(a, b) == IF a >= b THEN a ELSE b

\* a laserMin that forgets /min_range
LaserMinOfScan(scan) == scan.range_min

\* double laserMin = std::max(double(scan->range_min), _filterMinRange)
LaserMin(scan) == Max(scan.range_min, FilterMinRange)

\* the endpoint of a beam in the sensor frame
Point(range, laserAngle) == [range |-> range, angle |-> laserAngle]

\* the for loop over the beams, from beamId on: out collects pc.points,
\* ranges and numBeamsSkipped
RECURSIVE BeamLoop(_, _, _)
BeamLoop(scan, beamId, out) ==
  IF ~(beamId < Len(scan.ranges))
  THEN out
  ELSE LET range == scan.ranges[beamId + 1]
       IN  IF range >= LaserMin(scan) /\ range <= FilterMaxRange
           THEN BeamLoop(scan, beamId + 1,
                         [out EXCEPT !.points = Append(@, Point(range, beamId)),
                                     !.ranges = Append(@, range)])
           ELSE BeamLoop(scan, beamId + 1,
                         [out EXCEPT !.numBeamsSkipped = @ + 1])

\* pcl::UniformSampling::compute: the indices of the points kept, one per
\* occupied cell, in the order of its cells
SampledIndices(cloud) ==
  {idx \in UNION {[1..n -> 0..(Len(cloud) - 1)] : n \in 0..MaxSampled} :
     /\ \A i, j \in 1..Len(idx) : i # j => idx[i] # idx[j]
     /\ cloud # <<>> => idx # <<>>}

\* pcl::copyPointCloud(*cloudPtr, sampledIndices.points, pc)
CopyPointCloud(cloud, indices) == [k \in 1..Len(indices) |-> cloud[indices[k] + 1]]

\* a copy of the ranges that forgets the indices
RangesSparseInOrder(ranges, sampledIndices) ==
  [i \in 1..Len(sampledIndices) |-> ranges[i]]

\* rangesSparse[i] = ranges[sampledIndices.points[i]]
RangesSparse(ranges, sampledIndices) ==
  [i \in 1..Len(sampledIndices) |-> ranges[sampledIndices[i] + 1]]

\* what the function leaves in pc and ranges, with the cloud and the ranges
\* it held before the sampling
PrepareLaserPointCloud(scan, sampledIndices) ==
  LET valid == BeamLoop(scan, 0, [points |-> <<>>, ranges |-> <<>>, numBeamsSkipped |-> 0])
  IN  [done |-> TRUE, scan |-> scan, valid |-> valid, sampledIndices |-> sampledIndices,
       pc |-> CopyPointCloud(valid.points, sampledIndices),
       ranges |-> RangesSparse(valid.ranges, sampledIndices)]

CallPrepareLaserPointCloud ==
  /\ ~laser.done /\ laser # NoScan
  /\ \E sampledIndices \in
          SampledIndices(BeamLoop(laser.scan, 0,
                           [points |-> <<>>, ranges |-> <<>>, numBeamsSkipped |-> 0]).points) :
       laser' = PrepareLaserPointCloud(laser.scan, sampledIndices)
  /\ UNCHANGED <<nodeVars, fill, finder>>

LaserInit ==
  /\ Constructed
  /\ world = "spread" /\ publishUpdated /\ resamplingMode = "RESAMPLE_NEFF"
  /\ fill = NoFill /\ finder = NoFinder
  /\ laser \in {[done |-> FALSE, scan |-> scan] : scan \in LaserScans}

LaserNext == CallPrepareLaserPointCloud

LaserSpec == LaserInit /\ [][LaserNext]_vars

(***************************************************************************)
(* class CoverageFinder.  Lengths are in units of half a metre, so that    *)
(* half the sensor range, the step of the sweep, is a whole number for the *)
(* ranges considered.                                                      *)
(***************************************************************************)
\* the largest coordinate of a map's upper bound
MaxBound == 2

\* the most rays of one sensor position that castRay reports as hitting a wall
MaxHits == 2

\* the most sensor positions kept in _points
MaxPoints == 2

\* /rfid/range: none, the default of one metre, two metres
SensorRanges == {0, 2, 4}

\* the messages on /octomap_binary: one that does not deserialize, a tree
\* that is not a ColorOcTree, and ColorOcTrees of several extents, some
\* reaching under the ground
Octomaps ==
  {[tree |-> t, min |-> <<0, 0, 0>>, max |-> <<0, 0, 0>>] : t \in {"none", "OcTree"}}
    \cup {[tree |-> "ColorOcTree", min |-> <<0, 1, zmin>>, max |-> <<xmax, MaxBound, zmax>>] :
            zmin \in {-1, 0}, xmax \in 1..MaxBound, zmax \in 1..MaxBound}

\* visualization_msgs::Marker: the fields that tell the markers apart
Marker(id, position) == [id |-> id, position |-> position]

\* the marker the default constructor makes
DefaultMarker == Marker(0, <<0, 0, 0>>)

\* the constructor up to its wait for the map
FinderConstructed(range) ==
  [pc |-> "waiting", octomap_loaded |-> FALSE, octomap |-> "unset",
   min_bounds |-> <<0, 0, 0>>, max_bounds |-> <<0, 0, 0>>,
   sensor_range |-> range, init_pose |-> <<0, 0, 0>>, sensor_position |-> <<0, 0, 0>>,
   cast |-> {}, points |-> <<>>, published |-> <<>>]

\* octomapCallback, run by the spinOnce of the constructor's wait
OctomapCallback ==
  /\ finder.pc = "waiting" /\ ~finder.octomap_loaded
  /\ \E msg \in Octomaps :
       finder' =
         IF msg.tree = "none"
         THEN finder
         ELSE IF msg.tree # "ColorOcTree"
         THEN [finder EXCEPT !.octomap = "NULL"]
         ELSE [finder EXCEPT
                 !.octomap = "tree",
                 !.min_bounds = <<msg.min[1], msg.min[2],
                                  IF msg.min[3] < 0 THEN 0 ELSE msg.min[3]>>,
                 !.max_bounds = msg.max,
                 !.octomap_loaded = TRUE]
  /\ UNCHANGED <<nodeVars, fill, laser>>

\* while (!_octomap_loaded): the loop is left
MapAwaited(f) == f.octomap_loaded

\* the constructor from the end of its wait to the call of findCoveredSurface
StartSweep ==
  /\ finder.pc = "waiting" /\ MapAwaited(finder)
  /\ finder' = [finder EXCEPT !.pc = "sweep",
                              !.init_pose = finder.min_bounds,
                              !.sensor_position = finder.min_bounds]
  /\ UNCHANGED <<nodeVars, fill, laser>>

\* 0.5 * _sensor_range
Step(f) == f.sensor_range \div 2

\* the test of the y loop with the bound included
InsideYInclusive(f) == f.sensor_position[2] <= f.max_bounds[2]

\* the tests of the three loops
InsideZ(f) == f.sensor_position[3] < f.max_bounds[3]

InsideX(f) == f.sensor_position[1] < f.max_bounds[1]

InsideY(f) == f.sensor_position[2] < f.max_bounds[2]

\* the body of the y loop: the rays are cast from the sensor position, which
\* is kept once for every ray that found a wall above the floor, and the
\* position moves on in y
CastRays ==
  /\ finder.pc = "sweep" /\ InsideZ(finder) /\ InsideX(finder) /\ InsideY(finder)
  /\ \E hits \in 0..MaxHits :
       /\ Len(finder.points) + hits <= MaxPoints
       /\ finder' = [finder EXCEPT
                       !.cast = @ \cup {finder.sensor_position},
                       !.points = @ \o [k \in 1..hits |-> finder.sensor_position],
                       !.sensor_position[2] = @ + Step(finder)]
  /\ UNCHANGED <<nodeVars, fill, laser>>

\* the y loop is left: next point in x, y starts again
NextX ==
  /\ finder.pc = "sweep" /\ InsideZ(finder) /\ InsideX(finder) /\ ~InsideY(finder)
  /\ finder' = [finder EXCEPT
                  !.sensor_position = <<@[1] + Step(finder), finder.init_pose[2], @[3]>>]
  /\ UNCHANGED <<nodeVars, fill, laser>>

\* the x loop is left: next point in z, x and y start again
NextZ ==
  /\ finder.pc = "sweep" /\ InsideZ(finder) /\ ~InsideX(finder)
  /\ finder' = [finder EXCEPT
                  !.sensor_position =
                     <<finder.init_pose[1], finder.init_pose[2], @[3] + Step(finder)>>]
  /\ UNCHANGED <<nodeVars, fill, laser>>

\* the z loop is left: findCoveredSurface returns
EndSweep ==
  /\ finder.pc = "sweep" /\ ~InsideZ(finder)
  /\ finder' = [finder EXCEPT !.pc = "swept"]
  /\ UNCHANGED <<nodeVars, fill, laser>>

FindCoveredSurface == CastRays \/ NextX \/ NextZ \/ EndSweep

PublishCoveredSurface ==
  /\ finder.pc = "swept"
  /\ finder' = [finder EXCEPT !.pc = "covered"]
  /\ UNCHANGED <<nodeVars, fill, laser>>

\* marker_array.markers.resize(_points.size())
Resized(n) == [k \in 1..n |-> DefaultMarker]

\* the for loop: one marker per point, pushed at the back of the array
RECURSIVE PushMarkers(_, _, _)
PushMarkers(markers, points, idx) ==
  IF ~(idx < Len(points))
  THEN markers
  ELSE PushMarkers(Append(markers, Marker(idx, points[idx + 1])), points, idx + 1)

PublishWaypoints ==
  /\ finder.pc = "covered"
  /\ finder' = [finder EXCEPT
                  !.pc = "done",
                  !.published = <<PushMarkers(Resized(Len(finder.points)), finder.points, 0)>>]
  /\ UNCHANGED <<nodeVars, fill, laser>>

CoverageInit ==
  /\ Constructed
  /\ world = "spread" /\ publishUpdated /\ resamplingMode = "RESAMPLE_NEFF"
  /\ fill = NoFill /\ laser = NoScan
  /\ finder \in {FinderConstructed(range) : range \in SensorRanges}

CoverageNext ==
  \/ OctomapCallback
  \/ StartSweep
  \/ CastRays
  \/ NextX
  \/ NextZ
  \/ EndSweep
  \/ PublishCoveredSurface
  \/ PublishWaypoints

CoverageSpec == CoverageInit /\ [][CoverageNext]_vars

\* the constructor is one thread of control: once in findCoveredSurface it
\* keeps executing it
CoverageFairSpec == CoverageSpec /\ WF_vars(FindCoveredSurface)

(***************************************************************************)
(* Vocabulary of the properties                                            *)
(***************************************************************************)
InitKinds == {"initialPoseCallback", "globalLocalizationCallback", "initialPoseSrvCallback"}

\* the paths on which scanCallback drops the scan
DroppedBranches == {"notInitialized", "stale", "noOdom", "noTransform"}

\* c is a scan callback that ran to its end
ScanAccepted(c) == c.kind = "scanCallback" /\ c.branch \notin DroppedBranches

\* c sent no message at all
NothingPublished(c) ==
  c.poseArray = <<>> /\ c.pose = <<>> /\ c.tf = <<>> /\ c.calls = <<>> /\ ~c.cloud

\* the motion from pose from to pose to: its translation is shorter than the
\* translation threshold and it has no rotation (on the lattice a rotation is
\* a quarter turn at least, which is the rotation threshold)
BelowBothThresholds(from, to) ==
  LET motion == InverseTimes(from, to)
  IN  /\ Length2(motion.origin)
           < ObservationThresholdTranslation * ObservationThresholdTranslation
      /\ motion.basis = Identity3

(***************************************************************************)
(* C1: the first scan accepted after an initialization event, while the    *)
(* first-run flag is set, performs a full fused update (the scan is        *)
(* preprocessed and the filter steps), whatever the motion.                *)
(***************************************************************************)
C1_FirstScanIsFullUpdate ==
  [][(initialized /\ firstRun /\ ScanAccepted(cb'))
       => (cb'.prepared /\ Len(cb'.filterDt) = 1)]_vars

(***************************************************************************)
(* C2: an accepted scan after the first whose motion since the last        *)
(* localized pose is below both thresholds only drifts the particles by    *)
(* the time since the last odometry pose, and does not run the filter.     *)
(***************************************************************************)
C2_BelowThresholdsDriftOnly ==
  [][(initialized /\ ~firstRun /\ ScanAccepted(cb')
        /\ BelowBothThresholds(lastLocalizedPose, cb'.odomPose.pose))
       => /\ cb'.branch = "drift"
          /\ cb'.driftDt = <<cb'.odomPose.stamp - lastOdomPose.stamp>>
          /\ cb'.filterDt = <<>>
          /\ ~cb'.prepared
          /\ particles' \in Drift(particles)]_vars

C2_Witness ==
  /\ cb.kind = "scanCallback" /\ cb.branch = "drift"
  /\ cb.driftDt = <<1>>
  /\ cb.odomPose.pose # lastLocalizedPose

(***************************************************************************)
(* C3: a scan that arrives while the node is not initialized changes none  *)
(* of the particle set, last odometry pose, last localized pose, last      *)
(* laser time, first-run flag and stored correction, and publishes nothing.*)
(***************************************************************************)
C3_UninitializedScanIgnored ==
  [][(~initialized /\ cb'.kind = "scanCallback")
       => /\ UNCHANGED <<particles, lastOdomPose, lastLocalizedPose,
                         lastLaserTime, firstRun, latestTransform>>
          /\ NothingPublished(cb')]_vars

C3_Witness ==
  ~initialized /\ cb.kind = "scanCallback" /\ cb.stamp > 0 /\ NothingPublished(cb)

(***************************************************************************)
(* C4: once initialized, a scan stamped strictly before the last processed *)
(* scan is rejected: no state changes and nothing is published.            *)
(***************************************************************************)
C4_OlderScanRejected ==
  [][(initialized /\ cb'.kind = "scanCallback" /\ cb'.stamp < lastLaserTime)
       => /\ UNCHANGED <<particles, lastOdomPose, lastLocalizedPose, lastLaserTime,
                         firstRun, receivedSensorData, latestTransform>>
          /\ NothingPublished(cb')]_vars

C4_Witness ==
  /\ initialized /\ cb.kind = "scanCallback" /\ cb.stamp < lastLaserTime
  /\ cb.branch = "stale"

(***************************************************************************)
(* C5: when the odometry lookup or the sensor-to-base lookup fails, the    *)
(* scan is dropped: the localization state is unchanged and no pose        *)
(* estimate is published.                                                  *)
(***************************************************************************)
C5_FailedLookupDropsScan ==
  [][(cb'.kind = "scanCallback"
        /\ (cb'.odomLookup = "failed" \/ cb'.sensorToBase = "failed"))
       => /\ UNCHANGED localizationState
          /\ cb'.calls = <<>> /\ cb'.pose = <<>> /\ cb'.poseArray = <<>>
          /\ cb'.tf = <<>>]_vars

C5_Witness ==
  /\ cb.kind = "scanCallback" /\ cb.sensorToBase = "failed"
  /\ cb.odomPose # lastOdomPose /\ cb.stamp > lastLaserTime

(***************************************************************************)
(* C6: every scan that passes the rejection checks (the node is            *)
(* initialized, the scan is not older than the last one, the odometry      *)
(* resolves) advances the last odometry pose to the scan's odometry pose,  *)
(* whichever branch is taken.                                              *)
(***************************************************************************)
C6_PassingScanAdvancesOdomPose ==
  [][(initialized /\ cb'.kind = "scanCallback" /\ cb'.stamp >= lastLaserTime
        /\ cb'.odomLookup = "ok")
       => lastOdomPose' = cb'.odomPose]_vars

\* C6, for the scans that also resolve the sensor-to-base transform whenever
\* the gate asks for it: they advance the last odometry pose to the scan's
\* odometry pose, whichever branch is taken.
C6_CompletedScanAdvancesOdomPose ==
  [][(initialized /\ cb'.kind = "scanCallback" /\ cb'.stamp >= lastLaserTime
        /\ cb'.odomLookup = "ok" /\ cb'.sensorToBase # "failed")
       => lastOdomPose' = cb'.odomPose]_vars

C6_Witness ==
  /\ cb.kind = "scanCallback" /\ cb.branch = "drift"
  /\ cb.odomPose.stamp = 1 /\ cb.odomPose.pose # lastLocalizedPose
  /\ lastOdomPose = cb.odomPose

(***************************************************************************)
(* C7: a scan on the drift branch reweights nothing and publishes nothing: *)
(* no best pose, no pose array, no correction transform.                   *)
(***************************************************************************)
C7_DriftPublishesNothing ==
  (cb.kind = "scanCallback" /\ cb.branch = "drift")
    => (cb.filterDt = <<>> /\ NothingPublished(cb))

(***************************************************************************)
(* C8: each of the three initialization events, from any state, draws the  *)
(* particles from a distribution, selects RESAMPLE_NEFF, resets the filter *)
(* timer, leaves the node initialized and publishes a pose estimate.       *)
(* Hence an initialized node resamples in mode RESAMPLE_NEFF and has       *)
(* published an estimate, also when a scan followed the initialization.    *)
(***************************************************************************)
C8_InitializationEstablishes ==
  /\ cb.kind \in InitKinds =>
       /\ cb.draw # "-"
       /\ cb.draw = "drawn" =>
            particles \in DrawAllFromDistribution(
                            IF cb.kind = "globalLocalizationCallback"
                            THEN UniformSamples ELSE GaussianSamples)
       /\ resamplingMode = "RESAMPLE_NEFF"
       /\ cb.resetTimer
       /\ initialized
       /\ Len(cb.calls) = 1 /\ Len(cb.pose) = 1
  /\ initialized => resamplingMode = "RESAMPLE_NEFF"
  /\ initialized => estimatePublished

C8_Witness ==
  /\ cb.kind = "globalLocalizationCallback" /\ cb.draw = "drawn"
  /\ lastLocalizedPose # ZeroPose /\ firstRun
  /\ particles.states # [i \in 1..NumParticles |-> Origin]

(***************************************************************************)
(* C9: when the drawing of the particles fails during an initialization,   *)
(* the initialization is reported as failed: the node is left not          *)
(* initialized and the entry point does not return success.                *)
(***************************************************************************)
C9_FailedDrawLeavesUninitialized ==
  (cb.kind \in InitKinds /\ cb.draw = "failed")
    => (~initialized /\ cb.returned # "true")

(***************************************************************************)
(* C10: a publishPoseEstimate call whose frame chain does not resolve      *)
(* leaves _latestTransform as it was and broadcasts no correction; the     *)
(* timer goes on broadcasting the inverse of the stored correction.        *)
(***************************************************************************)
C10_UnresolvedChainKeepsCorrection ==
  [][/\ (cb'.calls # <<>> /\ \A i \in 1..Len(cb'.calls) : ~cb'.calls[i].ok)
          => (latestTransform' = latestTransform /\ cb'.tf = <<>>)
     /\ cb'.kind = "latestTransformTimerCallback"
          => /\ latestTransform' = latestTransform
             /\ cb'.tf = <<TransformStamped(cb'.stamp + TransformTolerance,
                                            TransformInverse(latestTransform))>>]_vars

C10_Witness ==
  /\ cb.kind \in InitKinds \cup {"scanCallback"}
  /\ cb.calls # <<>> /\ ~cb.calls[1].ok
  /\ latestTransform # IdentityTransform

(***************************************************************************)
(* C11: a publishPoseEstimate call whose frame chain does not resolve      *)
(* skips the whole publication: it publishes no best pose and no pose      *)
(* array, not only no correction transform.                                *)
(***************************************************************************)
C11_UnresolvedChainPublishesNothing ==
  (cb.calls # <<>> /\ \A i \in 1..Len(cb.calls) : ~cb.calls[i].ok)
    => (cb.pose = <<>> /\ cb.poseArray = <<>> /\ cb.tf = <<>>)

(***************************************************************************)
(* C12: every timer tick broadcasts exactly one transform, the inverse of  *)
(* the stored correction stamped with the time of the tick plus the        *)
(* tolerance, and changes no localization state.  The stored correction is *)
(* the one the most recent publishPoseEstimate call that resolved its      *)
(* chain computed, and the identity while none has: a step changes it only *)
(* by such a call, to the pose of base_footprint in the world composed     *)
(* with the inverse of the best particle's state.                          *)
(***************************************************************************)
C12_TimerRebroadcastsStoredCorrection ==
  /\ latestTransform = IdentityTransform
  /\ [][/\ cb'.kind = "latestTransformTimerCallback"
             => /\ cb'.tf = <<TransformStamped(cb'.stamp + TransformTolerance,
                                               TransformInverse(latestTransform))>>
                /\ cb'.pose = <<>> /\ cb'.poseArray = <<>> /\ cb'.calls = <<>>
                /\ UNCHANGED <<localizationState, initialized, receivedSensorData>>
        /\ (\E i \in 1..Len(cb'.calls) : cb'.calls[i].ok)
             => \E p \in WorldToBasePoses :
                  latestTransform' =
                    TransformTimes(p, TransformInverse(StateTransform(GetBestState(particles'))))
        /\ ~(\E i \in 1..Len(cb'.calls) : cb'.calls[i].ok)
             => latestTransform' = latestTransform]_vars

C12_Witness ==
  /\ cb.kind = "latestTransformTimerCallback" /\ initialized
  /\ latestTransform # IdentityTransform
  /\ Len(cb.tf) = 1 /\ cb.tf[1].transform = TransformInverse(latestTransform)
  /\ cb.tf[1].transform # latestTransform

(***************************************************************************)
(* C13: in every publishPoseEstimate call the pose published on /amcl/pose *)
(* is the state of the particle of maximum weight, the state the same call *)
(* computes the correction from.                                           *)
(***************************************************************************)
C13_PublishedPoseIsBestState ==
  \A i \in 1..Len(cb.pose) :
    cb.pose[i].pose = StateTransform(GetBestState(particles))

(***************************************************************************)
(* C15: whatever the interleaving of the worker threads, after the loop    *)
(* slot i of the published pose array holds the position and the           *)
(* orientation of particle i, for every i.                                 *)
(***************************************************************************)
C15_SlotsHoldTheirParticle ==
  (fill.pc # <<>> /\ fill.published # <<>>)
    => \A i \in 1..NumParticles :
         fill.published[1][i] = StateTransform(fill.states[i])

(***************************************************************************)
(* C16: before the downsampling, prepareLaserPointCloud holds exactly the  *)
(* beams whose range r has max(range_min, filterMinRange) <= r <=          *)
(* filterMaxRange, both bounds included, in the order of the scan; the     *)
(* scan 0.02, 5.0, 15.0, 3.0 with range_min 0.05 keeps 5.0 and 3.0.        *)
(***************************************************************************)
C16_RetainsBeamsInRange ==
  laser.done =>
    LET lower == IF laser.scan.range_min > FilterMinRange
                 THEN laser.scan.range_min ELSE FilterMinRange
        InRange(r) == lower <= r /\ r <= FilterMaxRange
        beams == {b \in 1..Len(laser.scan.ranges) : InRange(laser.scan.ranges[b])}
    IN  /\ laser.valid.ranges = SelectSeq(laser.scan.ranges, InRange)
        /\ Len(laser.valid.points) = Cardinality(beams)
        /\ \A k \in 1..Len(laser.valid.points) :
             /\ laser.valid.points[k].angle + 1 \in beams
             /\ Cardinality({b \in beams : b < laser.valid.points[k].angle + 1}) = k - 1
        /\ (laser.scan = LaserScan(<<2, 500, 1500, 300>>, 5)
              => laser.valid.ranges = <<500, 300>>)

C16_Witness ==
  /\ laser.done
  /\ laser.scan = LaserScan(<<2, 500, 1500, 300>>, 5)
  /\ laser.valid.ranges = <<500, 300>>
  /\ laser.valid.numBeamsSkipped = 2

(***************************************************************************)
(* C17: whatever indices the uniform sampling selects, the ranges and the  *)
(* points prepareLaserPointCloud returns have the same length, and         *)
(* ranges[k] is the range of the beam of the scan that gave points[k].     *)
(***************************************************************************)
C17_RangesAlignedWithPoints ==
  laser.done =>
    /\ Len(laser.ranges) = Len(laser.pc)
    /\ \A k \in 1..Len(laser.pc) :
         laser.ranges[k] = laser.scan.ranges[laser.pc[k].angle + 1]

C17_Witness ==
  /\ laser.done
  /\ Len(laser.pc) = 2 /\ Len(laser.ranges) = 2
  /\ laser.sampledIndices[1] > laser.sampledIndices[2]
  /\ laser.valid.numBeamsSkipped > 0
  /\ laser.ranges[1] # laser.ranges[2]

(***************************************************************************)
(* C18: while tracking, a scan that is not the first since initialization  *)
(* and whose odometry pose has rotated beyond the rotation threshold since *)
(* the last localized pose, about any of roll, pitch or yaw, opens the     *)
(* gate for a full step, even when its translation is below the            *)
(* translation threshold.                                                  *)
(***************************************************************************)
C18_RotationOpensGate ==
  [][(/\ initialized /\ ~firstRun
      /\ cb'.kind = "scanCallback" /\ cb'.odomLookup = "ok"
      /\ LET motion == InverseTimes(lastLocalizedPose, cb'.odomPose.pose)
             rpy == GetRPY(motion.basis)
         IN  /\ Length2(motion.origin)
                  < ObservationThresholdTranslation * ObservationThresholdTranslation
             /\ \/ Abs(rpy.roll) >= ObservationThresholdRotation
                \/ Abs(rpy.pitch) >= ObservationThresholdRotation
                \/ Abs(rpy.yaw) >= ObservationThresholdRotation)
       => cb'.branch \in {"full", "noTransform"}]_vars

(***************************************************************************)
(* C19: whenever a scan is accepted while tracking (its odometry pose and  *)
(* its stamp are recorded as the last ones) and is not fused, drift(dt)    *)
(* is called in that callback, with dt the time between the odometry pose  *)
(* of the scan and the odometry pose recorded before it.                   *)
(***************************************************************************)
C19_UnfusedScanDrifts ==
  [][(/\ initialized /\ cb'.kind = "scanCallback"
      /\ lastOdomPose' = cb'.odomPose /\ lastLaserTime' = cb'.stamp
      /\ cb'.odomLookup = "ok"
      /\ cb'.filterDt = <<>>)
       => cb'.driftDt = <<cb'.odomPose.stamp - lastOdomPose.stamp>>]_vars

(***************************************************************************)
(* C20: after any initialization, a re-initialization while tracking       *)
(* included, the motion gate and the computation of dt never use a last    *)
(* localized pose or a last odometry pose recorded before it: every        *)
(* initialization sets the first-run flag; the gate and dt are evaluated   *)
(* only with the flag cleared; the flag is cleared only by a scan that     *)
(* records its own odometry pose as both poses; and the two poses are      *)
(* never written with anything but the odometry pose of the current scan.  *)
(***************************************************************************)
C20_GateUsesPosesSinceInit ==
  [][/\ cb'.kind \in InitKinds => firstRun'
     /\ (cb'.kind = "scanCallback" /\ cb'.branch \in {"full", "drift", "noTransform"})
          => ~firstRun
     /\ (cb'.driftDt # <<>> \/ cb'.filterDt # <<>>) => ~firstRun
     /\ (firstRun /\ ~firstRun')
          => /\ cb'.kind = "scanCallback"
             /\ lastLocalizedPose' = cb'.odomPose.pose
             /\ lastOdomPose' = cb'.odomPose
     /\ lastLocalizedPose' # lastLocalizedPose
          => (cb'.kind = "scanCallback" /\ lastLocalizedPose' = cb'.odomPose.pose)
     /\ lastOdomPose' # lastOdomPose
          => (cb'.kind = "scanCallback" /\ lastOdomPose' = cb'.odomPose)]_vars

\* a re-initialization while tracking: both poses were recorded before it
C20_Witness ==
  /\ cb.kind \in InitKinds /\ firstRun
  /\ lastLocalizedPose # ZeroPose /\ lastOdomPose.pose # ZeroPose
  /\ lastLaserTime > 0

(***************************************************************************)
(* C21: the last localized pose changes only in a scan callback that is    *)
(* the first after an initialization or that completes a full fused step,  *)
(* and then it becomes the odometry pose of that scan; drift scans,        *)
(* rejected scans, scans dropped on a failed lookup, timer ticks and       *)
(* initializations leave it unchanged.  The gate therefore measures the    *)
(* displacement since the last fused update: a scan whose translation      *)
(* from the last localized pose reaches the threshold opens the gate,      *)
(* however small its move since the scan before it.                        *)
(***************************************************************************)
C21_LastLocalizedPoseSinceFusedUpdate ==
  [][/\ lastLocalizedPose' # lastLocalizedPose
          => /\ cb'.kind = "scanCallback"
             /\ \/ firstRun /\ cb'.branch = "first"
                \/ cb'.branch = "full" /\ Len(cb'.filterDt) = 1
     /\ (cb'.kind = "scanCallback" /\ cb'.branch \in {"first", "full"})
          => lastLocalizedPose' = cb'.odomPose.pose
     /\ (cb'.kind # "scanCallback" \/ cb'.branch \in DroppedBranches \cup {"drift"})
          => UNCHANGED lastLocalizedPose
     /\ (/\ initialized /\ ~firstRun
         /\ cb'.kind = "scanCallback" /\ cb'.odomLookup = "ok"
         /\ Length2(InverseTimes(lastLocalizedPose, cb'.odomPose.pose).origin)
              >= ObservationThresholdTranslation * ObservationThresholdTranslation)
          => cb'.branch \in {"full", "noTransform"}]_vars

\* a drift scan has moved the last odometry pose away from the last localized
\* pose, by less than the threshold: the next move of the same size reaches it
C21_Witness ==
  /\ cb.kind = "scanCallback" /\ cb.branch = "drift"
  /\ lastOdomPose = cb.odomPose
  /\ LET moved == InverseTimes(lastLocalizedPose, lastOdomPose.pose)
     IN  /\ moved.basis = Identity3
         /\ Length2(moved.origin) > 0
         /\ Length2(moved.origin)
              < ObservationThresholdTranslation * ObservationThresholdTranslation
         /\ \E next \in PosesOf(world) :
              /\ Length2(InverseTimes(lastOdomPose.pose, next).origin) = Length2(moved.origin)
              /\ Length2(InverseTimes(lastLocalizedPose, next).origin)
                   >= ObservationThresholdTranslation * ObservationThresholdTranslation

(***************************************************************************)
(* C22: every scan callback that completes a full step (the filter step    *)
(* ran) calls publishPoseEstimate exactly once, with the stamp of the      *)
(* scan, whichever value _publishUpdated has; and no scan callback calls   *)
(* publishPoseEstimate more than once.                                     *)
(***************************************************************************)
C22_FullStepPublishesOnce ==
  cb.kind = "scanCallback"
    => /\ Len(cb.calls) <= 1
       /\ cb.filterDt # <<>>
            => (Len(cb.calls) = 1 /\ cb.calls[1].t = cb.stamp)

C22_Witness ==
  /\ cb.kind = "scanCallback" /\ cb.branch = "full" /\ Len(cb.filterDt) = 1
  /\ publishUpdated /\ cb.stamp > 0
  /\ Len(cb.calls) = 1 /\ cb.calls[1].t = cb.stamp

(***************************************************************************)
(* C23: over any sequence of initialization, scan and timer callbacks the  *)
(* recorded last laser time never decreases, and an initialization does    *)
(* not reset it; with the odometry pose carrying the stamp of its scan,    *)
(* the dt passed to filter() or drift() is never negative.                 *)
(***************************************************************************)
C23_LaserTimeMonotoneDtNonNegative ==
  [][/\ lastLaserTime' >= lastLaserTime
     /\ cb'.kind \in InitKinds => lastLaserTime' = lastLaserTime
     /\ \A i \in 1..Len(cb'.filterDt) : cb'.filterDt[i] >= 0
     /\ \A i \in 1..Len(cb'.driftDt) : cb'.driftDt[i] >= 0
     /\ (cb'.filterDt # <<>> \/ cb'.driftDt # <<>>)
          => cb'.odomPose.stamp = cb'.stamp]_vars

\* a re-initialization stamped before the last scan: the laser time stays
C23_Witness ==
  /\ cb.kind = "initialPoseCallback"
  /\ cb.stamp < lastLaserTime
  /\ receivedSensorData /\ firstRun

C25_OneMarkerPerWaypoint ==
  \A m \in 1..Len(finder.published) :
    /\ Len(finder.published[m]) = Len(finder.points)
    /\ \A k \in 1..Len(finder.points) :
         finder.published[m][k].position = finder.points[k]

====
